---- MODULE Spec2Model ----
(***************************************************************************)
(* Model of parser.py: the Cryptocurrency record, the CryptoDataProcessor  *)
(* store with its queries, fetch_from_api and save_to_csv, and the         *)
(* interactive shell (main, show_all_cryptos_pages).                       *)
(*                                                                         *)
(* Encodings.  A Python str is a sequence of one-character strings.  An    *)
(* Optional value is a sequence of length at most one: <<>> is None and    *)
(* <<v>> is the value v.  A method that returns None returns <<>>.         *)
(* Printed messages are recorded as short tags in the sequence out.        *)
(***************************************************************************)
EXTENDS Integers, Sequences, FiniteSets, TLC

\* ---------------------------------------------------------------- bounds
MaxStore == 3
MaxResp == 2
MaxShellStore == 31

\* ------------------------------------------------------ program constants
per_page == 15
HTTP_OK == 200
DefaultLimit == 100
Exit == 10

\* ------------------------------------------------------------ input sets
None == <<>>
Some(v) == <<v>>

Cryptocurrency(name, symbol, price, market_cap, circulating_supply) ==
  [name |-> name, symbol |-> symbol, price |-> price,
   market_cap |-> market_cap, circulating_supply |-> circulating_supply]

\* Records the direct callers of the processor add or receive.
Records ==
  { Cryptocurrency(<<"B", "t">>, <<"X">>, 1, 2, 1),
    Cryptocurrency(<<"b", "T">>, <<"Y">>, 2, 2, 1),
    Cryptocurrency(<<"d", "1">>, <<"Z">>, 2, 1, 1),
    Cryptocurrency(<<"B", "T">>, <<"W">>, 3, 3, 1) }

\* The one record the shell runs add or receive.
ShellRecord == Cryptocurrency(<<"B", "t">>, <<"X">>, 1, 2, 1)

QueryNames == { <<"B", "t">>, <<"b", "t">>, <<"B", "T">>, <<"d", "1">>, <<"D", "1">>, <<"t", "B">> }
PriceArgs == 0 .. 3
PerPageArgs == 1 .. 2
PageArgs == -2 .. (MaxStore + 1)
TopArgs == -1 .. (MaxStore + 1)
ApiKeys == { <<>>, <<"k">> }
RawKeys == { <<>>, <<" ">>, <<"k">>, <<" ", "k", " ">> }
BrowseInputs == { <<"e">>, <<"E">>, <<"q">>, <<"Q">>, <<"x">>, <<"X">>, <<"z">>, <<>>, <<"e", "e">> }
Choices == 0 .. 11
\* int(input()) / float(input()): None stands for the ValueError raised on
\* text that is no number.
IntInputs == { None, Some(0), Some(2) }
FloatInputs == { None, Some(1) }
\* How many valid entries a response holds in the shell runs.
ChunkSizes == { 0, 1, per_page }

\* One entry of the response's data list: valid entries convert to crypto,
\* the others raise while the record is built (a missing key).
NoRecord == Cryptocurrency(<<>>, <<>>, 0, 0, 0)
GoodEntry(r) == [valid |-> TRUE, crypto |-> r]
BadEntry == [valid |-> FALSE, crypto |-> NoRecord]

\* What requests.get and response.json() produce: raises is an exception in
\* either; has_data / has_error tell whether data['data'] and
\* data['status']['error_message'] exist.
Response(raises, status, has_data, has_error, data) ==
  [raises |-> raises, status_code |-> status, has_data |-> has_data,
   has_error |-> has_error, data |-> data]
NoResponse == Response(FALSE, 0, FALSE, FALSE, <<>>)

SeqsUpTo(S, n) == UNION { [1 .. k -> S] : k \in 0 .. n }

ResponsesOver(entries, n) ==
  { Response(TRUE, 0, FALSE, FALSE, <<>>) }
    \cup { Response(FALSE, 401, FALSE, e, <<>>) : e \in BOOLEAN }
    \cup { Response(FALSE, HTTP_OK, FALSE, FALSE, <<>>) }
    \cup { Response(FALSE, HTTP_OK, TRUE, FALSE, d) : d \in SeqsUpTo(entries, n) }

Entries == { GoodEntry(r) : r \in Records } \cup { BadEntry }

\* ------------------------------------------------------- python helpers
Min(a, b) == IF a < b THEN a ELSE b
Max(a, b) == IF a > b THEN a ELSE b

\* str.lower() on one character and on a string.
char_lower(c) ==
  CASE c = "B" -> "b"
    [] c = "T" -> "t"
    [] c = "D" -> "d"
    [] c = "E" -> "e"
    [] c = "Q" -> "q"
    [] c = "X" -> "x"
    [] OTHER -> c

str_lower(s) == [i \in 1 .. Len(s) |-> char_lower(s[i])]

\* str.strip(): leading and trailing blanks removed.
RECURSIVE lstrip(_)
lstrip(s) == IF s # <<>> /\ Head(s) = " " THEN lstrip(Tail(s)) ELSE s

RECURSIVE rstrip(_)
rstrip(s) ==
  IF s # <<>> /\ s[Len(s)] = " " THEN rstrip(SubSeq(s, 1, Len(s) - 1)) ELSE s

str_strip(s) == rstrip(lstrip(s))

\* l[start:end] of a list, negative indices counted from the end.
slice_index(n, i) == IF i < 0 THEN Max(n + i, 0) ELSE Min(i, n)

py_slice(l, start, end) ==
  LET a == slice_index(Len(l), start)
      b == slice_index(Len(l), end)
  IN  IF a >= b THEN <<>> ELSE SubSeq(l, a + 1, b)

\* list.append
list_prepend(l, x) == <<x>> \o l
list_append(l, x) == Append(l, x)

\* `not self.api_key`: None and the empty string are falsy.
not_key_only_none(key) == key = None
not_api_key(key) == key = None \/ key = Some(<<>>)

\* -------------------------------------------------- CryptoDataProcessor
\* The loop over data['data']: each entry is converted and appended at once;
\* an entry that cannot be converted raises and ends the loop.  done lists
\* the records handed to append so far.
RECURSIVE convert_entries_skipping(_, _, _)
convert_entries_skipping(cryptos, done, data) ==
  IF data = <<>>
    THEN [cryptocurrencies |-> cryptos, appended |-> done, raised |-> TRUE]
  ELSE IF ~Head(data).valid THEN convert_entries_skipping(cryptos, done, Tail(data))
  ELSE convert_entries_skipping(list_append(cryptos, Head(data).crypto),
                                Append(done, Head(data).crypto), Tail(data))

RECURSIVE convert_entries(_, _, _)
convert_entries(cryptos, done, data) ==
  IF data = <<>>
    THEN [cryptocurrencies |-> cryptos, appended |-> done, raised |-> FALSE]
  ELSE IF ~Head(data).valid
    THEN [cryptocurrencies |-> cryptos, appended |-> done, raised |-> TRUE]
  ELSE convert_entries(list_append(cryptos, Head(data).crypto),
                       Append(done, Head(data).crypto), Tail(data))

FetchResult(cryptos, done, r, o, n) ==
  [cryptocurrencies |-> cryptos, appended |-> done, ret |-> r, out |-> o,
   requests |-> n]

\* fetch_from_api: the store after the call, the value returned, what was
\* printed and how many HTTP requests were issued.
fetch_from_api(cryptos, key, resp) ==
  IF not_api_key(key)
    THEN FetchResult(cryptos, <<>>, FALSE, <<"api_key_not_set">>, 0)
  ELSE IF resp.raises
    THEN FetchResult(cryptos, <<>>, FALSE, <<"request_error">>, 1)
  ELSE IF resp.status_code = HTTP_OK
    THEN IF ~resp.has_data
           THEN FetchResult(cryptos, <<>>, FALSE, <<"request_error">>, 1)
           ELSE LET r == convert_entries(cryptos, <<>>, resp.data)
                IN  IF r.raised
                      THEN FetchResult(r.cryptocurrencies, r.appended, FALSE,
                                       <<"request_error">>, 1)
                      ELSE FetchResult(r.cryptocurrencies, r.appended, TRUE,
                                       <<"loaded">>, 1)
  ELSE IF resp.has_error
    THEN FetchResult(cryptos, <<>>, FALSE, <<"api_error">>, 1)
  ELSE FetchResult(cryptos, <<>>, FALSE, <<"request_error">>, 1)

get_all_cryptos(cryptos) == cryptos

get_all_cryptos_pages_from_zero(cryptos, page, perPage) ==
  py_slice(cryptos, page * perPage, page * perPage + perPage)

get_all_cryptos_pages(cryptos, page, perPage) ==
  LET start == (page - 1) * perPage
      end == start + perPage
  IN  py_slice(cryptos, start, end)

\* crypto.name.lower() == name.lower()
name_matches_exact_query(crypto_name, name) == str_lower(crypto_name) = name
name_matches(crypto_name, name) == str_lower(crypto_name) = str_lower(name)

RECURSIVE get_crypto_by_name(_, _)
get_crypto_by_name(cryptos, name) ==
  IF cryptos = <<>> THEN None
  ELSE IF name_matches(Head(cryptos).name, name) THEN Some(Head(cryptos))
  ELSE get_crypto_by_name(Tail(cryptos), name)

\* The order of sorted(..., key=market_cap, reverse=True): a stays ahead of
\* a later b unless b's key is strictly greater.
stays_ahead_strict(a, b) == a.market_cap > b.market_cap
stays_ahead(a, b) == a.market_cap >= b.market_cap

\* Stable insertion of x, the next element of the input, into a sorted list.
sorted_insert(s, x) ==
  LET k == Cardinality({ i \in 1 .. Len(s) : stays_ahead(s[i], x) })
  IN  SubSeq(s, 1, k) \o <<x>> \o SubSeq(s, k + 1, Len(s))

RECURSIVE sorted_by_market_cap(_)
sorted_by_market_cap(l) ==
  IF l = <<>> THEN <<>>
  ELSE sorted_insert(sorted_by_market_cap(SubSeq(l, 1, Len(l) - 1)), l[Len(l)])

get_top_by_market_cap(cryptos, n) == py_slice(sorted_by_market_cap(cryptos), 0, n)

\* min_price <= crypto.price <= max_price
in_price_range_open_min(min_price, price, max_price) ==
  min_price < price /\ price <= max_price
in_price_range(min_price, price, max_price) ==
  min_price <= price /\ price <= max_price

RECURSIVE get_cryptos_in_price_range(_, _, _)
get_cryptos_in_price_range(cryptos, min_price, max_price) ==
  IF cryptos = <<>> THEN <<>>
  ELSE (IF in_price_range(min_price, Head(cryptos).price, max_price)
          THEN <<Head(cryptos)>> ELSE <<>>)
       \o get_cryptos_in_price_range(Tail(cryptos), min_price, max_price)

RECURSIVE calculate_total_market_cap(_)
calculate_total_market_cap(cryptos) ==
  IF cryptos = <<>> THEN 0
  ELSE Head(cryptos).market_cap + calculate_total_market_cap(Tail(cryptos))

\* save_to_csv: reads the store, writes the file or fails; the exception
\* is caught and reported.
save_to_csv(cryptos, io_fails) ==
  IF io_fails THEN <<"save_error">> ELSE <<"saved">>

\* ------------------------------------------------------------------ state
VARIABLES
  cryptocurrencies,   \* self.cryptocurrencies
  api_key,            \* self.api_key (Optional str)
  appended,           \* history: every record appended so far, in order
  op,                 \* the processor method called last
  args,               \* its arguments
  ret,                \* its return value
  out,                \* the messages printed by the last step
  response,           \* the HTTP response the last fetch_from_api received
  requests,           \* HTTP requests issued by the last step
  pc,                 \* shell: where main is
  choice,             \* shell: the menu selection read last
  page,               \* show_all_cryptos_pages: page
  total_pages,        \* show_all_cryptos_pages: total_pages
  action,             \* show_all_cryptos_pages: action (a str)
  err                 \* shell: the error kind the last step reported

vars ==
  << cryptocurrencies, api_key, appended, op, args, ret, out, response,
     requests, pc, choice, page, total_pages, action, err >>

processorVars == << cryptocurrencies, api_key, appended >>
callVars == << op, args, ret, out, response, requests >>
shellVars == << pc, choice, page, total_pages, action, err >>

NoArgs == [none |-> TRUE]

\* CryptoDataProcessor.__init__ and the locals before their first assignment.
InitCommon ==
  /\ cryptocurrencies = <<>>
  /\ api_key = None
  /\ appended = <<>>
  /\ op = "__init__"
  /\ args = NoArgs
  /\ ret = None
  /\ out = <<>>
  /\ response = NoResponse
  /\ requests = 0
  /\ choice = 0
  /\ page = 0
  /\ total_pages = 0
  /\ action = <<>>
  /\ err = "none"

\* ------------------------------------------- the processor, called directly
Init == InitCommon /\ pc = "caller"

\* A call that only reads the store.
Query(name, a, r, o) ==
  /\ op' = name
  /\ args' = a
  /\ ret' = r
  /\ out' = o
  /\ response' = NoResponse
  /\ requests' = 0
  /\ UNCHANGED << processorVars, shellVars >>

Call_set_api_key ==
  \E k \in ApiKeys :
    /\ api_key' = Some(k)
    /\ op' = "set_api_key"
    /\ args' = [api_key |-> k]
    /\ ret' = None
    /\ out' = <<>>
    /\ response' = NoResponse
    /\ requests' = 0
    /\ UNCHANGED << cryptocurrencies, appended, shellVars >>

Call_add_crypto ==
  \E crypto \in Records :
    /\ Len(cryptocurrencies) < MaxStore
    /\ cryptocurrencies' = list_append(cryptocurrencies, crypto)
    /\ appended' = Append(appended, crypto)
    /\ op' = "add_crypto"
    /\ args' = [crypto |-> crypto]
    /\ ret' = None
    /\ out' = <<>>
    /\ response' = NoResponse
    /\ requests' = 0
    /\ UNCHANGED << api_key, shellVars >>

Call_fetch_from_api ==
  \E resp \in ResponsesOver(Entries, MaxResp) :
    /\ Len(cryptocurrencies) + Len(resp.data) <= MaxStore
    /\ LET r == fetch_from_api(cryptocurrencies, api_key, resp)
       IN  /\ cryptocurrencies' = r.cryptocurrencies
           /\ appended' = appended \o r.appended
           /\ ret' = r.ret
           /\ out' = r.out
           /\ requests' = r.requests
           /\ response' = IF r.requests = 0 THEN NoResponse ELSE resp
    /\ op' = "fetch_from_api"
    /\ args' = NoArgs
    /\ UNCHANGED << api_key, shellVars >>

Call_get_all_cryptos ==
  Query("get_all_cryptos", NoArgs, get_all_cryptos(cryptocurrencies), <<>>)

Call_get_all_cryptos_pages ==
  \E p \in PageArgs, s \in PerPageArgs :
    Query("get_all_cryptos_pages", [page |-> p, per_page |-> s],
          get_all_cryptos_pages(cryptocurrencies, p, s), <<>>)

Call_get_crypto_by_name ==
  \E name \in QueryNames :
    Query("get_crypto_by_name", [name |-> name],
          get_crypto_by_name(cryptocurrencies, name), <<>>)

Call_get_top_by_market_cap ==
  \E n \in TopArgs :
    Query("get_top_by_market_cap", [n |-> n],
          get_top_by_market_cap(cryptocurrencies, n), <<>>)

Call_get_cryptos_in_price_range ==
  \E lo \in PriceArgs, hi \in PriceArgs :
    Query("get_cryptos_in_price_range", [min_price |-> lo, max_price |-> hi],
          get_cryptos_in_price_range(cryptocurrencies, lo, hi), <<>>)

Call_calculate_total_market_cap ==
  Query("calculate_total_market_cap", NoArgs,
        calculate_total_market_cap(cryptocurrencies), <<>>)

Call_save_to_csv ==
  \E io_fails \in BOOLEAN :
    Query("save_to_csv", [io_fails |-> io_fails], None,
          save_to_csv(cryptocurrencies, io_fails))

Next ==
  \/ Call_set_api_key
  \/ Call_add_crypto
  \/ Call_fetch_from_api
  \/ Call_get_all_cryptos
  \/ Call_get_all_cryptos_pages
  \/ Call_get_crypto_by_name
  \/ Call_get_top_by_market_cap
  \/ Call_get_cryptos_in_price_range
  \/ Call_calculate_total_market_cap
  \/ Call_save_to_csv

Spec == Init /\ [][Next]_vars

\* ------------------------------------------------------------- the shell
ShellInit == InitCommon /\ pc = "menu"

Copies(k, x) == [i \in 1 .. k |-> x]

\* Responses of the shell runs: k valid entries, or k valid entries, one that
\* cannot be converted, and one more valid entry.
ShellData ==
  { Copies(k, GoodEntry(ShellRecord)) : k \in ChunkSizes }
    \cup { Copies(k, GoodEntry(ShellRecord)) \o <<BadEntry, GoodEntry(ShellRecord)>> :
           k \in ChunkSizes }

ShellResponses ==
  { Response(TRUE, 0, FALSE, FALSE, <<>>) }
    \cup { Response(FALSE, 401, FALSE, e, <<>>) : e \in BOOLEAN }
    \cup { Response(FALSE, HTTP_OK, TRUE, FALSE, d) : d \in ShellData }

NoCall ==
  /\ op' = ""
  /\ args' = NoArgs
  /\ ret' = None
  /\ response' = NoResponse
  /\ requests' = 0

Called(name, a, r) ==
  /\ op' = name
  /\ args' = a
  /\ ret' = r
  /\ response' = NoResponse
  /\ requests' = 0

\* Top of main's outer loop.
display_menu ==
  /\ pc = "menu"
  /\ pc' = "choice"
  /\ out' = <<"menu">>
  /\ err' = "none"
  /\ NoCall
  /\ UNCHANGED << processorVars, choice, page, total_pages, action >>

\* int(input(...)) raises ValueError: the inner loop prompts again.
read_choice_invalid ==
  /\ pc = "choice"
  /\ pc' = "choice"
  /\ out' = <<"invalid_choice">>
  /\ err' = "value"
  /\ NoCall
  /\ UNCHANGED << processorVars, choice, page, total_pages, action >>

\* A valid selection c is read and its case runs.
Selected(c) == pc = "choice" /\ choice' = c

\* Only case 10 breaks out of the loop.
after_case(c) == IF c = Exit THEN "exited" ELSE "menu"

case_1 ==
  \E raw \in RawKeys :
    /\ Selected(1)
    /\ api_key' = Some(str_strip(raw))
    /\ Called("set_api_key", [api_key |-> str_strip(raw)], None)
    /\ out' = <<"api_key_set">>
    /\ err' = "none"
    /\ pc' = after_case(1)
    /\ UNCHANGED << cryptocurrencies, appended, page, total_pages, action >>

\* int(input(...) or "100"): the empty line is the default limit.
case_2_no_key ==
  /\ Selected(2)
  /\ not_api_key(api_key)
  /\ out' = <<"set_api_key_first">>
  /\ err' = "no_key"
  /\ NoCall
  /\ pc' = after_case(2)
  /\ UNCHANGED << processorVars, page, total_pages, action >>

case_2_bad_limit ==
  /\ Selected(2)
  /\ ~not_api_key(api_key)
  /\ out' = <<"enter_integer">>
  /\ err' = "value"
  /\ NoCall
  /\ pc' = after_case(2)
  /\ UNCHANGED << processorVars, page, total_pages, action >>

case_2_fetch ==
  \E limit \in { 2, DefaultLimit }, resp \in ShellResponses :
    /\ Selected(2)
    /\ ~not_api_key(api_key)
    /\ Len(cryptocurrencies) + Len(resp.data) <= MaxShellStore
    /\ LET r == fetch_from_api(cryptocurrencies, api_key, resp)
       IN  /\ cryptocurrencies' = r.cryptocurrencies
           /\ appended' = appended \o r.appended
           /\ ret' = r.ret
           /\ requests' = r.requests
           /\ response' = resp
           /\ out' = IF r.ret THEN r.out \o <<"data_loaded">> ELSE r.out
           /\ err' = IF r.ret THEN "none"
                     ELSE IF r.out = <<"api_error">> THEN "api" ELSE "exception"
    /\ op' = "fetch_from_api"
    /\ args' = [limit |-> limit]
    /\ pc' = after_case(2)
    /\ UNCHANGED << api_key, page, total_pages, action >>

case_3_empty ==
  /\ Selected(3)
  /\ cryptocurrencies = <<>>
  /\ out' = <<"load_data_first">>
  /\ err' = "none"
  /\ NoCall
  /\ pc' = after_case(3)
  /\ UNCHANGED << processorVars, page, total_pages, action >>

\* show_all_cryptos_pages up to its first input(): page 1 is displayed.
case_3_browse ==
  /\ Selected(3)
  /\ cryptocurrencies # <<>>
  /\ page' = 1
  /\ total_pages' = (Len(cryptocurrencies) + per_page - 1) \div per_page
  /\ Called("get_all_cryptos_pages", [page |-> 1, per_page |-> per_page],
            get_all_cryptos_pages(cryptocurrencies, 1, per_page))
  /\ out' = <<"page">>
  /\ err' = "none"
  /\ pc' = "browse"
  /\ UNCHANGED << processorVars, action >>

\* case 'e' and case 'q' of the match on action.
next_page(p, total) == IF p < total THEN p + 1 ELSE p
previous_page(p) == IF p > 1 THEN p - 1 ELSE p

\* What the match on action prints.
browse_message(a) ==
  IF a \in { <<"e">>, <<"q">>, <<"x">> } THEN <<>> ELSE <<"invalid_input_or_end_of_list">>

\* One iteration of the loop of show_all_cryptos_pages from its input():
\* the command is read and matched, and unless it is x the loop displays the
\* (new) current page.
browse_step ==
  \E line \in BrowseInputs :
    /\ pc = "browse"
    /\ action' = str_lower(line)
    /\ page' = CASE action' = <<"e">> -> next_page(page, total_pages)
                 [] action' = <<"q">> -> previous_page(page)
                 [] OTHER -> page
    /\ pc' = IF action' = <<"x">> THEN "menu" ELSE "browse"
    /\ IF action' = <<"x">>
         THEN NoCall /\ out' = <<>>
         ELSE /\ Called("get_all_cryptos_pages", [page |-> page', per_page |-> per_page],
                        get_all_cryptos_pages(cryptocurrencies, page', per_page))
              /\ out' = browse_message(action') \o <<"page">>
    /\ err' = "none"
    /\ UNCHANGED << processorVars, choice, total_pages >>

case_4 ==
  \E name \in QueryNames :
    /\ Selected(4)
    /\ Called("get_crypto_by_name", [name |-> name],
              get_crypto_by_name(cryptocurrencies, name))
    /\ out' = IF ret' = None THEN <<"not_found">> ELSE <<"crypto">>
    /\ err' = "none"
    /\ pc' = after_case(4)
    /\ UNCHANGED << processorVars, page, total_pages, action >>

case_5 ==
  \E n \in IntInputs :
    /\ Selected(5)
    /\ IF n = None
         THEN NoCall /\ out' = <<"enter_integer">> /\ err' = "value"
         ELSE /\ Called("get_top_by_market_cap", [n |-> n[1]],
                        get_top_by_market_cap(cryptocurrencies, n[1]))
              /\ out' = IF ret' = <<>> THEN <<>> ELSE <<"top_lines">>
              /\ err' = "none"
    /\ pc' = after_case(5)
    /\ UNCHANGED << processorVars, page, total_pages, action >>

case_6 ==
  \E min_p \in FloatInputs, max_p \in FloatInputs :
    /\ Selected(6)
    /\ IF min_p = None \/ max_p = None
         THEN NoCall /\ out' = <<"enter_numbers">> /\ err' = "value"
         ELSE /\ Called("get_cryptos_in_price_range",
                        [min_price |-> min_p[1], max_price |-> max_p[1]],
                        get_cryptos_in_price_range(cryptocurrencies, min_p[1], max_p[1]))
              /\ out' = IF ret' = <<>> THEN <<>> ELSE <<"cryptos">>
              /\ err' = "none"
    /\ pc' = after_case(6)
    /\ UNCHANGED << processorVars, page, total_pages, action >>

case_7 ==
  /\ Selected(7)
  /\ Called("calculate_total_market_cap", NoArgs,
            calculate_total_market_cap(cryptocurrencies))
  /\ out' = <<"total">>
  /\ err' = "none"
  /\ pc' = after_case(7)
  /\ UNCHANGED << processorVars, page, total_pages, action >>

\* Case 8: the three float() conversions come before the record is built
\* and added.
manual_add_unchecked(cryptos, crypto, numeric) == list_append(cryptos, crypto)
manual_add(cryptos, crypto, numeric) ==
  IF numeric THEN list_append(cryptos, crypto) ELSE cryptos

case_8 ==
  \E price \in FloatInputs, market_cap \in FloatInputs, supply \in FloatInputs :
    LET numeric == price # None /\ market_cap # None /\ supply # None
    IN  /\ Selected(8)
        /\ cryptocurrencies' = manual_add(cryptocurrencies, ShellRecord, numeric)
        /\ Len(cryptocurrencies') <= MaxShellStore
        /\ appended' = IF numeric THEN Append(appended, ShellRecord) ELSE appended
        /\ IF numeric
             THEN /\ Called("add_crypto", [crypto |-> ShellRecord], None)
                  /\ out' = <<"crypto_added">>
                  /\ err' = "none"
             ELSE NoCall /\ out' = <<"enter_numbers">> /\ err' = "value"
        /\ pc' = after_case(8)
        /\ UNCHANGED << api_key, page, total_pages, action >>

case_9 ==
  \E io_fails \in BOOLEAN :
    /\ Selected(9)
    /\ Called("save_to_csv", [io_fails |-> io_fails], None)
    /\ out' = save_to_csv(cryptocurrencies, io_fails)
    /\ err' = IF io_fails THEN "io" ELSE "none"
    /\ pc' = after_case(9)
    /\ UNCHANGED << processorVars, page, total_pages, action >>

case_10 ==
  /\ Selected(Exit)
  /\ out' = <<"exit">>
  /\ err' = "none"
  /\ NoCall
  /\ pc' = after_case(Exit)
  /\ UNCHANGED << processorVars, page, total_pages, action >>

case_other ==
  \E c \in Choices \ (1 .. Exit) :
    /\ Selected(c)
    /\ out' = <<"invalid_choice">>
    /\ err' = "none"
    /\ NoCall
    /\ pc' = after_case(c)
    /\ UNCHANGED << processorVars, page, total_pages, action >>

ShellNext ==
  \/ display_menu
  \/ read_choice_invalid
  \/ case_1
  \/ case_2_no_key
  \/ case_2_bad_limit
  \/ case_2_fetch
  \/ case_3_empty
  \/ case_3_browse
  \/ browse_step
  \/ case_4
  \/ case_5
  \/ case_6
  \/ case_7
  \/ case_8
  \/ case_9
  \/ case_10
  \/ case_other

ShellSpec == ShellInit /\ [][ShellNext]_vars

\* ================================================================ claims
IsFetch == op = "fetch_from_api"
KeySet(key) == key # None /\ key # Some(<<>>)

\* C1: after any sequence of calls, get_all_cryptos() is exactly the records
\* appended so far by add_crypto and fetch_from_api, in append order, and
\* its length is the number of appends.
C1_StoreIsAppendHistory ==
  /\ get_all_cryptos(cryptocurrencies) = appended
  /\ Len(get_all_cryptos(cryptocurrencies)) = Len(appended)

\* A full store, just sorted by a query into another order, and intact.
C1_Witness ==
  /\ op = "get_top_by_market_cap"
  /\ Len(appended) = MaxStore
  /\ Len(ret) = MaxStore
  /\ ret # cryptocurrencies

\* C2: with no key set, or the empty key, fetch_from_api returns failure,
\* issues no request and leaves the store unchanged.
C2_NoKeyNoRequest ==
  [][(op' = "fetch_from_api" /\ (api_key = None \/ api_key = Some(<<>>)))
       => (ret' = FALSE /\ requests' = 0 /\ cryptocurrencies' = cryptocurrencies)]_vars

C2_Witness ==
  /\ IsFetch
  /\ api_key = Some(<<>>)
  /\ cryptocurrencies # <<>>
  /\ ret = FALSE
  /\ requests = 0

\* The entries of a data list before its first entry that cannot be
\* converted, as records.
FirstInvalid(data) ==
  CHOOSE i \in 1 .. Len(data) :
    ~data[i].valid /\ \A j \in 1 .. (i - 1) : data[j].valid

ValidPrefix(data) == [i \in 1 .. (FirstInvalid(data) - 1) |-> data[i].crypto]

EntryFailure(resp) ==
  /\ ~resp.raises
  /\ resp.status_code = HTTP_OK
  /\ resp.has_data
  /\ \E i \in 1 .. Len(resp.data) : ~resp.data[i].valid

\* C3 as stated: whenever fetch_from_api, called with a key set, returns
\* failure, the store holds exactly the records it held before the call.
C3_FailedFetchLeavesStore ==
  [][(op' = "fetch_from_api" /\ KeySet(api_key) /\ ret' = FALSE)
       => cryptocurrencies' = cryptocurrencies]_vars

\* C3 amended: a failed fetch with a key set leaves the store unchanged
\* unless the failure is an entry that cannot be converted; then the store
\* is the old store followed by the records of the entries before that one.
C3_FailedFetchKeepsConvertedPrefix ==
  [][(op' = "fetch_from_api" /\ KeySet(api_key) /\ ret' = FALSE)
       => IF EntryFailure(response')
            THEN cryptocurrencies' = cryptocurrencies \o ValidPrefix(response'.data)
            ELSE cryptocurrencies' = cryptocurrencies]_vars

\* A failed fetch whose second entry could not be converted.
C3_Witness ==
  /\ IsFetch
  /\ KeySet(api_key)
  /\ ret = FALSE
  /\ Len(response.data) = 2
  /\ response.data[1].valid
  /\ ~response.data[2].valid
  /\ Len(cryptocurrencies) >= 2

CeilDiv(n, s) == (n + s - 1) \div s

RECURSIVE ConcatPages(_, _, _)
ConcatPages(cryptos, s, last) ==
  IF last = 0 THEN <<>>
  ELSE ConcatPages(cryptos, s, last - 1) \o get_all_cryptos_pages(cryptos, last, s)

\* C4: for page size s >= 1 the pages 1..ceil(count/s), concatenated in
\* increasing order, are get_all_cryptos(); every page but the last has s
\* records and the last has between 1 and s.
C4_PagesReconstructStore ==
  (op = "get_all_cryptos_pages" /\ args.per_page >= 1) =>
    LET s == args.per_page
        last == CeilDiv(Len(cryptocurrencies), s)
    IN  /\ ConcatPages(cryptocurrencies, s, last) = get_all_cryptos(cryptocurrencies)
        /\ \A p \in 1 .. (last - 1) :
             Len(get_all_cryptos_pages(cryptocurrencies, p, s)) = s
        /\ last >= 1 =>
             Len(get_all_cryptos_pages(cryptocurrencies, last, s)) \in 1 .. s
        /\ args.page \in 1 .. last =>
             ret = SubSeq(cryptocurrencies, (args.page - 1) * s + 1,
                          Min(args.page * s, Len(cryptocurrencies)))

\* The shorter last page of a store of three read in pages of two.
C4_Witness ==
  /\ op = "get_all_cryptos_pages"
  /\ Len(cryptocurrencies) = 3
  /\ args = [page |-> 2, per_page |-> 2]
  /\ ret = <<cryptocurrencies[3]>>

\* The records whose 0-based positions lie in [(p-1)*s, p*s).
PositionsPage(cryptos, p, s) ==
  LET lo == Max((p - 1) * s, 0)
      hi == Min(p * s, Len(cryptos))
  IN  IF lo >= hi THEN <<>> ELSE SubSeq(cryptos, lo + 1, hi)

\* C5 as stated: for every integer page p and page size s >= 1 the page is
\* exactly the records at 0-based positions in [(p-1)*s, p*s), empty when
\* that interval holds no position of the store.
C5_PageIsPositionInterval ==
  (op = "get_all_cryptos_pages" /\ args.per_page >= 1) =>
    ret = PositionsPage(cryptocurrencies, args.page, args.per_page)

\* Position i of the store in the order: greater market_cap first, equal
\* market_cap in insertion order.
Rank(cryptos, i) ==
  1 + Cardinality({ j \in 1 .. Len(cryptos) :
        \/ cryptos[j].market_cap > cryptos[i].market_cap
        \/ cryptos[j].market_cap = cryptos[i].market_cap /\ j < i })

Ranked(cryptos, k) == cryptos[CHOOSE i \in 1 .. Len(cryptos) : Rank(cryptos, i) = k]

\* C6: for n >= 0, get_top_by_market_cap(n) is min(n, count) records, those
\* of greatest market_cap, in non-increasing market_cap order, equal
\* market_cap in insertion order; the whole store when n exceeds its size.
C6_TopIsStableDescending ==
  (op = "get_top_by_market_cap" /\ args.n >= 0) =>
    /\ Len(ret) = Min(args.n, Len(cryptocurrencies))
    /\ ret = [k \in 1 .. Min(args.n, Len(cryptocurrencies)) |->
                Ranked(cryptocurrencies, k)]
    /\ \A k \in 1 .. (Len(ret) - 1) : ret[k].market_cap >= ret[k + 1].market_cap

\* Two of three: the lowest is cut and the tie keeps its insertion order.
C6_Witness ==
  /\ op = "get_top_by_market_cap"
  /\ args.n = 2
  /\ Len(cryptocurrencies) = 3
  /\ cryptocurrencies[1].market_cap < cryptocurrencies[2].market_cap
  /\ cryptocurrencies[2].market_cap = cryptocurrencies[3].market_cap
  /\ cryptocurrencies[2] # cryptocurrencies[3]
  /\ ret = <<cryptocurrencies[2], cryptocurrencies[3]>>

InRange(cryptos, lo, hi) ==
  { i \in 1 .. Len(cryptos) : lo <= cryptos[i].price /\ cryptos[i].price <= hi }

Nth(P, k) == CHOOSE i \in P : Cardinality({ j \in P : j <= i }) = k

\* C7: get_cryptos_in_price_range(min, max) is exactly the records with
\* min <= price <= max, in insertion order; empty when min > max.
C7_PriceRangeInclusive ==
  op = "get_cryptos_in_price_range" =>
    LET P == InRange(cryptocurrencies, args.min_price, args.max_price)
    IN  /\ ret = [k \in 1 .. Cardinality(P) |-> cryptocurrencies[Nth(P, k)]]
        /\ args.min_price > args.max_price => ret = <<>>

\* Both bounds are prices of stored records, and one record is left out.
C7_Witness ==
  /\ op = "get_cryptos_in_price_range"
  /\ args = [min_price |-> 1, max_price |-> 2]
  /\ Len(cryptocurrencies) = 3
  /\ Len(ret) = 2
  /\ ret[1].price = 1
  /\ ret[2].price = 2
  /\ cryptocurrencies[1].price = 3

CasePairs == { {"B", "b"}, {"T", "t"}, {"D", "d"} }
SameLetter(c, d) == c = d \/ {c, d} \in CasePairs
EqualIgnoringCase(a, b) ==
  Len(a) = Len(b) /\ \A i \in 1 .. Len(a) : SameLetter(a[i], b[i])

NameMatches(cryptos, name) ==
  { i \in 1 .. Len(cryptos) : EqualIgnoringCase(cryptos[i].name, name) }

\* C8: get_crypto_by_name(name) is the first record in insertion order whose
\* name equals name ignoring case, and None exactly when there is none.
C8_FirstMatchIgnoringCase ==
  op = "get_crypto_by_name" =>
    LET M == NameMatches(cryptocurrencies, args.name)
    IN  IF M = {} THEN ret = None
        ELSE ret = Some(cryptocurrencies[CHOOSE i \in M : \A j \in M : i <= j])

\* A query in another case than both stored names finds the first of them.
C8_Witness ==
  /\ op = "get_crypto_by_name"
  /\ args.name = <<"b", "t">>
  /\ Len(cryptocurrencies) = 3
  /\ cryptocurrencies[1].name = <<"d", "1">>
  /\ cryptocurrencies[2].name = <<"B", "T">>
  /\ cryptocurrencies[3].name = <<"b", "T">>
  /\ ret = Some(cryptocurrencies[2])

\* A command the browse loop does not act on: no known command, e on the
\* last page, q on the first page.
Rejected(a, p, total) ==
  \/ a \notin { <<"e">>, <<"q">>, <<"x">> }
  \/ a = <<"e">> /\ p = total
  \/ a = <<"q">> /\ p = 1

\* C9 as stated: in the browse loop the page stays in 1..total_pages, every
\* invalid command or boundary violation prints a message and leaves the
\* page unchanged, and only x leaves the loop.
C9_BrowseRejectsWithMessage ==
  [][pc = "browse" =>
       /\ pc' = "browse" => page' \in 1 .. total_pages'
       /\ Rejected(action', page, total_pages) =>
            (page' = page /\ \E i \in 1 .. Len(out') :
                               out'[i] = "invalid_input_or_end_of_list")
       /\ pc' # "browse" => action' = <<"x">>]_vars

ErrorKinds == { "no_key", "api", "exception", "value", "io" }

\* C10 as stated: each of the five error kinds is reported on the console,
\* is not retried and is followed by the main menu; the loop ends only on
\* option 10; a manual add aborted by non-numeric input creates no record.
C10_ErrorsReturnToMenu ==
  [][/\ err' \in ErrorKinds => (out' # <<>> /\ requests' <= 1 /\ pc' = "menu")
     /\ (pc # "exited" /\ pc' = "exited") => choice' = Exit
     /\ (choice' = 8 /\ err' = "value") => cryptocurrencies' = cryptocurrencies]_vars

\* C10 amended: as C10, but a non-integer menu selection is reported and the
\* selection prompt is repeated, the menu not being displayed again.
C10_ErrorsReturnToMenuOrPrompt ==
  [][/\ (err' \in ErrorKinds /\ pc = "choice" /\ out' = <<"invalid_choice">>)
          => (requests' = 0 /\ pc' = "choice")
     /\ (err' \in ErrorKinds /\ ~(pc = "choice" /\ out' = <<"invalid_choice">>))
          => (out' # <<>> /\ requests' <= 1 /\ pc' = "menu")
     /\ (pc # "exited" /\ pc' = "exited") => choice' = Exit
     /\ (choice' = 8 /\ err' = "value") => cryptocurrencies' = cryptocurrencies]_vars

\* A manual add into a non-empty store was aborted by a non-numeric field.
C10_Witness ==
  /\ choice = 8
  /\ err = "value"
  /\ pc = "menu"
  /\ out = <<"enter_numbers">>
  /\ cryptocurrencies # <<>>
====
